---- MODULE Spec2Model ----
(***************************************************************************)
(* Model of botobackoff: the BotoBackoff proxy (construction, with_options, *)
(* __getattr__) and the botobackoff decorator's retry loop (retry_func).    *)
(*                                                                          *)
(* Python list objects live in `heap` and are referred to by index, so     *)
(* that aliasing between a proxy, its children and the closures made by    *)
(* the decorator is visible.  Times are integers: interval_seconds in      *)
(* milliseconds, jitter in percent, a sleep time in ms * 100.               *)
(***************************************************************************)
EXTENDS Integers, Sequences, FiniteSets, TLC

VARIABLES heap, proxies, funcs, inv, ctx

vars == <<heap, proxies, funcs, inv, ctx>>

(* ------------------------------ bounds --------------------------------- *)
MaxProxies == 2
MaxFuncs == 2
NumThreads == 2
MaxRetriesBound == 2
MaxCalls == 5

(* --------------------------- program constants ------------------------- *)
DEFAULT_RETRY_ERROR_CODES ==
    << "ThrottlingException", "TooManyRequestsException",
       "ServiceUnavailableException", "RequestLimitExceeded",
       "RequestThrottled", "RequestThrottledException",
       "ProvisionedThroughputExceededException", "LimitExceededException",
       "EndpointConnectionError", "ConnectTimeoutError", "Unavailable",
       "InternalFailure", "InternalError" >>

Range(s) == {s[k] : k \in DOMAIN s}

(* Error codes the underlying call is made to fail with. *)
ErrorCodes == {"ThrottlingException", "CustomError", "AccessDenied"}

MessageOf(code) ==
    IF code = "AccessDenied" THEN "Access Denied" ELSE "Rate exceeded"

\* Outcomes of one underlying call of f; id is the index of the call within
\* its invocation and stands for the identity of the object.
Response(k) == [kind |-> "ok", code |-> "", msg |-> "Buckets", id |-> k]
ClientError(code, k) ==
    [kind |-> "ClientError", code |-> code, msg |-> MessageOf(code), id |-> k]
OtherException(k) ==
    [kind |-> "Exception", code |-> "", msg |-> "connection reset", id |-> k]
NoneValue == [kind |-> "None", code |-> "", msg |-> "", id |-> 0]

(* ------------------------- Python's `x or y` --------------------------- *)
(* An optional argument is <<>> (None, not given) or <<v>>.                *)
NotGiven == <<>>

PyOr(opt, dflt) ==
    IF opt # NotGiven /\ opt[1] # 0 THEN opt[1] ELSE dflt

(* A list argument is <<>> (None) or <<contents>>; an empty list is falsy. *)
TruthyList(opt) == opt # NotGiven /\ opt[1] # <<>>

(* ------------------------ BotoBackoff.__init__ ------------------------- *)
\* `arg or []` for a list argument that is NotGiven or <<ref>>: the caller's
\* object when it is non-empty, else a freshly allocated empty list.
ListOrEmpty(h, arg) ==
    IF arg # NotGiven /\ h[arg[1]] # <<>>
    THEN [heap |-> h, ref |-> arg[1]]
    ELSE [heap |-> Append(h, <<>>), ref |-> Len(h) + 1]

\* The fields __init__ stores; parent, ov, added0 and ignore0 are history
\* (who derived the proxy, with which overrides, and the list contents at
\* construction).
BotoBackoff(h, client, interval_seconds, max_retries, backoff_rate, jitter, max_retries_before_backoff, added_error_codes, ignore_error_codes, parent, ov) ==
    LET a == ListOrEmpty(h, added_error_codes)
        g == ListOrEmpty(a.heap, ignore_error_codes)
    IN [heap |-> g.heap,
        proxy |-> [client |-> client,
                   interval_seconds |-> interval_seconds,
                   max_retries |-> max_retries,
                   backoff_rate |-> backoff_rate,
                   jitter |-> jitter,
                   max_retries_before_backoff |-> max_retries_before_backoff,
                   added |-> a.ref,
                   ignore |-> g.ref,
                   parent |-> parent,
                   ov |-> ov,
                   added0 |-> g.heap[a.ref],
                   ignore0 |-> g.heap[g.ref]]]

(* ----------------------- BotoBackoff.with_options ---------------------- *)
\* `arg or self._list` for a list argument.
PyOrList(h, arg, selfRef) ==
    IF arg # NotGiven /\ h[arg[1]] # <<>> THEN arg[1] ELSE selfRef

\* with_options as it would be if max_retries_before_backoff were not
\* handed on (the child takes the constructor's default 0).
with_options_forgets(h, p, ov, ghost) ==
    LET self == proxies[p]
    IN BotoBackoff(h, self.client,
           PyOr(ov.interval_seconds, self.interval_seconds),
           PyOr(ov.max_retries, self.max_retries),
           PyOr(ov.backoff_rate, self.backoff_rate),
           PyOr(ov.jitter, self.jitter),
           0,
           <<PyOrList(h, ov.added_error_codes, self.added)>>,
           <<PyOrList(h, ov.ignore_error_codes, self.ignore)>>,
           p, ghost)

\* ov: the numeric overrides (NotGiven or <<n>>) and the list overrides
\* (NotGiven or <<ref>> of the caller's list); ghost: what is recorded as ov.
with_options(h, p, ov, ghost) ==
    LET self == proxies[p]
    IN BotoBackoff(h, self.client,
           PyOr(ov.interval_seconds, self.interval_seconds),
           PyOr(ov.max_retries, self.max_retries),
           PyOr(ov.backoff_rate, self.backoff_rate),
           PyOr(ov.jitter, self.jitter),
           PyOr(ov.max_retries_before_backoff, self.max_retries_before_backoff),
           <<PyOrList(h, ov.added_error_codes, self.added)>>,
           <<PyOrList(h, ov.ignore_error_codes, self.ignore)>>,
           p, ghost)

(* --------------------------- botobackoff.deco -------------------------- *)
\* deco as it would be with retry_on = added_error_codes or DEFAULT...: the
\* built-in codes only when no code was added.
deco_replaces(h, added_error_codes, ignore_error_codes) ==
    LET r == ListOrEmpty(h, added_error_codes)
        h2 == [r.heap EXCEPT ![r.ref] =
                  IF @ = <<>> THEN DEFAULT_RETRY_ERROR_CODES ELSE @]
        g == ListOrEmpty(h2, ignore_error_codes)
    IN [heap |-> g.heap, retry_on |-> r.ref, ignore_on |-> g.ref]

\* retry_on = added_error_codes or []; retry_on.extend(DEFAULT...);
\* ignore_on = ignore_error_codes or [].  extend changes the list in place.
deco(h, added_error_codes, ignore_error_codes) ==
    LET r == ListOrEmpty(h, added_error_codes)
        h2 == [r.heap EXCEPT ![r.ref] = @ \o DEFAULT_RETRY_ERROR_CODES]
        g == ListOrEmpty(h2, ignore_error_codes)
    IN [heap |-> g.heap, retry_on |-> r.ref, ignore_on |-> g.ref]

(* ------------------------------ retry_func ----------------------------- *)
\* The handler with the retry test placed before the ignore test.
Decision_retry_first(error_code, attempts, retry_on, ignore_on, max_retries) ==
    IF error_code \in Range(retry_on) /\ ~(attempts > max_retries) THEN "RETRY"
    ELSE IF error_code \in Range(ignore_on) THEN "IGNORE"
         ELSE "RAISE"

\* The handler retrying whatever the error code is.
Decision_retry_any(error_code, attempts, retry_on, ignore_on, max_retries) ==
    IF error_code \in Range(ignore_on) THEN "IGNORE"
    ELSE IF ~(attempts > max_retries) THEN "RETRY"
         ELSE "RAISE"

\* The handler giving up once _attempts has reached max_retries.
Decision_strict(error_code, attempts, retry_on, ignore_on, max_retries) ==
    IF error_code \in Range(ignore_on) THEN "IGNORE"
    ELSE IF error_code \in Range(retry_on) /\ ~(attempts >= max_retries)
         THEN "RETRY"
         ELSE "RAISE"

\* The handler's branches for a ClientError with error_code after
\* `attempts` earlier retries: return None, retry, or raise e.
Decision(error_code, attempts, retry_on, ignore_on, max_retries) ==
    IF error_code \in Range(ignore_on) THEN "IGNORE"
    ELSE IF error_code \in Range(retry_on) /\ ~(attempts > max_retries)
         THEN "RETRY"
         ELSE "RAISE"

\* The sleep test with >= in place of >.
Backoff_at_threshold(attempts, max_retries_before_backoff) ==
    attempts >= max_retries_before_backoff

\* if _attempts > max_retries_before_backoff: sleep before the retry.
Backoff(attempts, max_retries_before_backoff) ==
    attempts > max_retries_before_backoff

RECURSIVE Pow(_, _)
Pow(b, e) == IF e <= 0 THEN 1 ELSE b * Pow(b, e - 1)

\* The sleep time with the exponent counted from 0 instead of from
\* max_retries_before_backoff.
sleep_time_from_zero(interval_seconds, backoff_rate, attempts, max_retries_before_backoff, u) ==
    interval_seconds * Pow(backoff_rate, attempts) * (100 + u)

\* interval_seconds * backoff_rate ** (attempts - mrbb) * (1 + u), where u
\* is the jitter drawn (percent): the result is in ms * 100.
sleep_time(interval_seconds, backoff_rate, attempts, max_retries_before_backoff, u) ==
    interval_seconds * Pow(backoff_rate, attempts - max_retries_before_backoff)
        * (100 + u)

\* random.uniform(-jitter, jitter): the two ends of the interval.
JitterDraws(jitter) == {0 - jitter, jitter}

\* _attempts kept by the decorated function instead of the invocation: an
\* invocation starts from the count another running invocation has reached.
InitialAttempts_shared(i) ==
    IF \E o \in DOMAIN inv : o # i /\ inv[o].pc \in {"attempting", "sleeping"}
    THEN inv[CHOOSE o \in DOMAIN inv :
                o # i /\ inv[o].pc \in {"attempting", "sleeping"}].attempts
    ELSE 0

\* _attempts = 0 at the start of every invocation.
InitialAttempts(i) == 0

\* The loop without the increment.
NextAttempts_stuck(a) == a

\* _attempts += 1
NextAttempts(a) == a + 1

(* ------------------------------- inputs -------------------------------- *)
Clients == {"s3"}
IntervalValues == {200}
MaxRetriesValues == 0 .. MaxRetriesBound
BackoffRateValues == {2}
JitterValues == {50}
BeforeBackoffValues == {0, 1}
AddedLists == {NotGiven, << <<"CustomError">> >>}
IgnoreLists == {NotGiven, << <<"CustomError">> >>, << <<"ThrottlingException">> >>}

NoOverrides ==
    [interval_seconds |-> NotGiven, max_retries |-> NotGiven,
     backoff_rate |-> NotGiven, jitter |-> NotGiven,
     max_retries_before_backoff |-> NotGiven,
     added_error_codes |-> NotGiven, ignore_error_codes |-> NotGiven]

\* The keyword arguments with_options is called with: none, or one of them.
Overrides ==
    {NoOverrides}
    \cup {[NoOverrides EXCEPT !.interval_seconds = <<v>>] : v \in {0, 100}}
    \cup {[NoOverrides EXCEPT !.max_retries = <<v>>] : v \in {0, 1}}
    \cup {[NoOverrides EXCEPT !.backoff_rate = <<v>>] : v \in {0, 3}}
    \cup {[NoOverrides EXCEPT !.jitter = <<v>>] : v \in {0, 20}}
    \cup {[NoOverrides EXCEPT !.max_retries_before_backoff = <<v>>] : v \in {0, 1}}
    \cup {[NoOverrides EXCEPT !.added_error_codes = <<v>>] :
             v \in {<<>>, <<"AccessDenied">>}}
    \cup {[NoOverrides EXCEPT !.ignore_error_codes = <<v>>] :
             v \in {<<>>, <<"CustomError">>}}

\* The caller builds a list and passes it: the list is a new heap object.
PassList(h, contents) ==
    IF contents = NotGiven
    THEN [heap |-> h, arg |-> NotGiven]
    ELSE [heap |-> Append(h, contents[1]), arg |-> <<Len(h) + 1>>]

(* ------------------------------- state --------------------------------- *)
Idle ==
    [fn |-> 0, pc |-> "idle", attempts |-> 0, hist |-> <<>>, sleeps |-> <<>>,
     result |-> NoneValue]

\* ctx[t] is what thread t holds besides its invocation: got, the value of
\* its last lookup of an attribute that is not callable; scope, the with
\* block it is in (on: the proxy entered, as: what __enter__ returned); left,
\* how it last left a with block (exc: the exception in flight, reaches:
\* what reaches the caller of the block).
NoScope == [on |-> 0, as |-> 0]
NoContext ==
    [got |-> [item |-> "", value |-> <<>>],
     scope |-> NoScope,
     left |-> [exits |-> FALSE, exc |-> NoneValue, reaches |-> NoneValue]]

\* inv[t] is the invocation of retry_func that thread t is in, or was last in.
Threads == DOMAIN inv

Active(t) == inv[t].pc \in {"attempting", "sleeping"}
Terminal(t) == inv[t].pc \in {"success", "ignored", "failed"}

\* The program after BotoBackoff(client, ...) was constructed, with n threads.
Constructed(n, mrs, bbs, ads, igs) ==
    \E c \in Clients, iv \in IntervalValues, mr \in mrs,
       br \in BackoffRateValues, j \in JitterValues,
       bb \in bbs, ad \in ads, ig \in igs :
        LET a == PassList(<<>>, ad)
            g == PassList(a.heap, ig)
            b == BotoBackoff(g.heap, c, iv, mr, br, j, bb, a.arg, g.arg,
                             0, NoOverrides)
        IN /\ heap = b.heap
           /\ proxies = <<b.proxy>>
           /\ funcs = <<>>
           /\ inv = [t \in 1 .. n |-> Idle]
           /\ ctx = [t \in 1 .. n |-> NoContext]

Init ==
    Constructed(1, MaxRetriesValues, BeforeBackoffValues, AddedLists, IgnoreLists)

(* ------------------------------ actions -------------------------------- *)
\* proxy.with_options(**ov)
WithOptions(t, p, ov) ==
    /\ ~Active(t)
    /\ Len(proxies) < MaxProxies
    /\ LET a == PassList(heap, ov.added_error_codes)
           g == PassList(a.heap, ov.ignore_error_codes)
           b == with_options(g.heap, p,
                    [ov EXCEPT !.added_error_codes = a.arg,
                               !.ignore_error_codes = g.arg], ov)
       IN /\ heap' = b.heap
          /\ proxies' = Append(proxies, b.proxy)
    /\ UNCHANGED <<funcs, inv, ctx>>

\* proxy.<operation>: __getattr__ finds a callable and decorates it.
GetAttr(t, p) ==
    /\ ~Active(t)
    /\ Len(funcs) < MaxFuncs
    /\ LET self == proxies[p]
           d == deco(heap, <<self.added>>, <<self.ignore>>)
       IN /\ heap' = d.heap
          /\ funcs' = Append(funcs,
                 [proxy |-> p,
                  interval_seconds |-> self.interval_seconds,
                  max_retries |-> self.max_retries,
                  backoff_rate |-> self.backoff_rate,
                  jitter |-> self.jitter,
                  max_retries_before_backoff |-> self.max_retries_before_backoff,
                  retry_on |-> d.retry_on,
                  ignore_on |-> d.ignore_on])
    /\ UNCHANGED <<proxies, inv, ctx>>

\* The attributes of the underlying client: one operation and two attributes
\* that are not callable.
ClientAttributes == {"list_buckets", "meta", "exceptions"}
Callable(item) == item = "list_buckets"
\* getattr(self._client, item): the client's own attribute object.
ClientAttribute(client, item) == <<client, item>>

\* __getattr__ decorating before it tests callable(fn).
GetAttrValue_decorates(t, p, item) ==
    /\ ~Active(t)
    /\ ~Callable(item)
    /\ heap' = deco(heap, <<proxies[p].added>>, <<proxies[p].ignore>>).heap
    /\ ctx' = [ctx EXCEPT ![t].got =
                 [item |-> item,
                  value |-> ClientAttribute(proxies[p].client, item)]]
    /\ UNCHANGED <<proxies, funcs, inv>>

\* proxy.<attribute> for an attribute that is not callable: return fn.
GetAttrValue(t, p, item) ==
    /\ ~Active(t)
    /\ ~Callable(item)
    /\ ctx' = [ctx EXCEPT ![t].got =
                 [item |-> item,
                  value |-> ClientAttribute(proxies[p].client, item)]]
    /\ UNCHANGED <<heap, proxies, funcs, inv>>

\* __enter__: return self.
BotoBackoff_enter(p) == p

\* __exit__ returning True.
BotoBackoff_exit_suppresses(exc) == TRUE

\* __exit__: pass.  It returns None, which is falsy: nothing is suppressed.
BotoBackoff_exit(exc) == FALSE

\* with proxy as x: the block is entered.
Enter(t, p) ==
    /\ ~Active(t)
    /\ ctx[t].scope = NoScope
    /\ ctx' = [ctx EXCEPT ![t].scope = [on |-> p, as |-> BotoBackoff_enter(p)]]
    /\ UNCHANGED <<heap, proxies, funcs, inv>>

\* The exception a with block may be left with: none, or the error the
\* thread's invocation raised.
ExitExceptions(t) ==
    {NoneValue} \cup (IF inv[t].pc = "failed" THEN {inv[t].result} ELSE {})

\* The with block is left, normally or by exception exc.
Exit(t, exc) ==
    /\ ~Active(t)
    /\ ctx[t].scope # NoScope
    /\ ctx' = [ctx EXCEPT
                 ![t].scope = NoScope,
                 ![t].left = [exits |-> TRUE, exc |-> exc,
                              reaches |-> IF BotoBackoff_exit(exc)
                                          THEN NoneValue ELSE exc]]
    /\ UNCHANGED <<heap, proxies, funcs, inv>>

\* retry_func is entered: _attempts = 0.
Invoke(i, f) ==
    /\ ~Active(i)
    /\ inv' = [inv EXCEPT ![i] = [Idle EXCEPT !.fn = f, !.pc = "attempting",
                                              !.attempts = InitialAttempts(i)]]
    /\ UNCHANGED <<heap, proxies, funcs, ctx>>

\* The loop calling f without returning its value.
CallReturns_drops_value(i) ==
    /\ inv[i].pc = "attempting"
    /\ Len(inv[i].hist) < MaxCalls
    /\ inv' = [inv EXCEPT ![i].hist = Append(@, Response(Len(inv[i].hist) + 1)),
                          ![i].pc = "success",
                          ![i].result = NoneValue]
    /\ UNCHANGED <<heap, proxies, funcs, ctx>>

\* return f(...): the underlying call succeeds.
CallReturns(i) ==
    /\ inv[i].pc = "attempting"
    /\ Len(inv[i].hist) < MaxCalls
    /\ LET r == Response(Len(inv[i].hist) + 1)
       IN inv' = [inv EXCEPT ![i].hist = Append(@, r),
                             ![i].pc = "success",
                             ![i].result = r]
    /\ UNCHANGED <<heap, proxies, funcs, ctx>>

\* The class name of the exception that is no ClientError; botocore raises
\* ConnectTimeoutError as such, and the built-in table lists that name.
ExceptionName == "ConnectTimeoutError"

\* An except clause that also takes other exceptions and classifies them by
\* their class name.
CallRaisesOther_classified(i) ==
    /\ inv[i].pc = "attempting"
    /\ Len(inv[i].hist) < MaxCalls
    /\ LET f == funcs[inv[i].fn]
           e == OtherException(Len(inv[i].hist) + 1)
           d == Decision(ExceptionName, inv[i].attempts, heap[f.retry_on],
                         heap[f.ignore_on], f.max_retries)
       IN CASE d = "IGNORE" ->
                 inv' = [inv EXCEPT ![i].hist = Append(@, e),
                                    ![i].pc = "ignored",
                                    ![i].result = NoneValue]
            [] d = "RAISE" ->
                 inv' = [inv EXCEPT ![i].hist = Append(@, e),
                                    ![i].pc = "failed",
                                    ![i].result = e]
            [] OTHER ->
                 inv' = [inv EXCEPT ![i].hist = Append(@, e),
                                    ![i].attempts = NextAttempts(@)]
    /\ UNCHANGED <<heap, proxies, funcs, ctx>>

\* The underlying call raises something that is no ClientError: no handler.
CallRaisesOther(i) ==
    /\ inv[i].pc = "attempting"
    /\ Len(inv[i].hist) < MaxCalls
    /\ LET e == OtherException(Len(inv[i].hist) + 1)
       IN inv' = [inv EXCEPT ![i].hist = Append(@, e),
                             ![i].pc = "failed",
                             ![i].result = e]
    /\ UNCHANGED <<heap, proxies, funcs, ctx>>

\* A loop that sleeps before it tests whether a retry is left: the sleep is
\* taken and then the error is raised.
CallRaisesClientError_sleeps_then_raises(i, code) ==
    /\ inv[i].pc = "attempting"
    /\ Len(inv[i].hist) < MaxCalls
    /\ LET f == funcs[inv[i].fn]
           k == Len(inv[i].hist) + 1
           e == ClientError(code, k)
           a == inv[i].attempts
           d == Decision(code, a, heap[f.retry_on], heap[f.ignore_on],
                         f.max_retries)
           z == [after |-> k, attempts |-> a, u |-> 0,
                 time |-> sleep_time(f.interval_seconds, f.backoff_rate, a,
                                     f.max_retries_before_backoff, 0)]
       IN CASE d = "IGNORE" ->
                 inv' = [inv EXCEPT ![i].hist = Append(@, e),
                                    ![i].pc = "ignored",
                                    ![i].result = NoneValue]
            [] d = "RAISE" /\ code \in Range(heap[f.retry_on]) ->
                 inv' = [inv EXCEPT ![i].hist = Append(@, e),
                                    ![i].pc = "failed",
                                    ![i].sleeps = Append(@, z),
                                    ![i].result = e]
            [] d = "RAISE" /\ code \notin Range(heap[f.retry_on]) ->
                 inv' = [inv EXCEPT ![i].hist = Append(@, e),
                                    ![i].pc = "failed",
                                    ![i].result = e]
            [] d = "RETRY" /\ Backoff(a, f.max_retries_before_backoff) ->
                 inv' = [inv EXCEPT ![i].hist = Append(@, e),
                                    ![i].pc = "sleeping",
                                    ![i].sleeps = Append(@, z)]
            [] OTHER ->
                 inv' = [inv EXCEPT ![i].hist = Append(@, e),
                                    ![i].attempts = NextAttempts(a)]
    /\ UNCHANGED <<heap, proxies, funcs, ctx>>

\* The underlying call raises ClientError: the except clause, up to the
\* return, the raise, the start of the sleep or the next turn of the loop.
CallRaisesClientError(i, code) ==
    /\ inv[i].pc = "attempting"
    /\ Len(inv[i].hist) < MaxCalls
    /\ LET f == funcs[inv[i].fn]
           k == Len(inv[i].hist) + 1
           e == ClientError(code, k)
           a == inv[i].attempts
           d == Decision(code, a, heap[f.retry_on], heap[f.ignore_on],
                         f.max_retries)
       IN CASE d = "IGNORE" ->
                 inv' = [inv EXCEPT ![i].hist = Append(@, e),
                                    ![i].pc = "ignored",
                                    ![i].result = NoneValue]
            [] d = "RAISE" ->
                 inv' = [inv EXCEPT ![i].hist = Append(@, e),
                                    ![i].pc = "failed",
                                    ![i].result = e]
            [] d = "RETRY" /\ Backoff(a, f.max_retries_before_backoff) ->
                 \E u \in JitterDraws(f.jitter) :
                    inv' = [inv EXCEPT
                       ![i].hist = Append(@, e),
                       ![i].pc = "sleeping",
                       ![i].sleeps = Append(@,
                          [after |-> k, attempts |-> a, u |-> u,
                           time |-> sleep_time(f.interval_seconds,
                                       f.backoff_rate, a,
                                       f.max_retries_before_backoff, u)])]
            [] OTHER ->
                 inv' = [inv EXCEPT ![i].hist = Append(@, e),
                                    ![i].attempts = NextAttempts(a)]
    /\ UNCHANGED <<heap, proxies, funcs, ctx>>

\* time.sleep returns; _attempts += 1; back to the top of the loop.
SleepReturns(i) ==
    /\ inv[i].pc = "sleeping"
    /\ inv' = [inv EXCEPT ![i].pc = "attempting",
                          ![i].attempts = NextAttempts(@)]
    /\ UNCHANGED <<heap, proxies, funcs, ctx>>

Next ==
    \/ \E t \in Threads, p \in DOMAIN proxies, ov \in Overrides :
          WithOptions(t, p, ov)
    \/ \E t \in Threads, p \in DOMAIN proxies : GetAttr(t, p)
    \/ \E i \in Threads, f \in DOMAIN funcs : Invoke(i, f)
    \/ \E i \in Threads : CallReturns(i)
    \/ \E i \in Threads : CallRaisesOther(i)
    \/ \E i \in Threads, code \in ErrorCodes : CallRaisesClientError(i, code)
    \/ \E i \in Threads : SleepReturns(i)

Spec == Init /\ [][Next]_vars

\* NumThreads threads look up operations on one proxy and call them.
ConcInit ==
    Constructed(NumThreads, {1}, {0}, {<< <<"CustomError">> >>}, {NotGiven})

ConcNext ==
    \/ \E t \in Threads, p \in DOMAIN proxies : GetAttr(t, p)
    \/ \E i \in Threads, f \in DOMAIN funcs : Invoke(i, f)
    \/ \E i \in Threads : CallReturns(i)
    \/ \E i \in Threads : CallRaisesOther(i)
    \/ \E i \in Threads, code \in ErrorCodes : CallRaisesClientError(i, code)
    \/ \E i \in Threads : SleepReturns(i)

ConcSpec == ConcInit /\ [][ConcNext]_vars

\* The underlying call and the sleep of a running invocation return.
Progress(t) ==
    \/ CallReturns(t)
    \/ CallRaisesOther(t)
    \/ \E code \in ErrorCodes : CallRaisesClientError(t, code)
    \/ SleepReturns(t)

LiveSpec == Init /\ [][Next]_vars /\ WF_vars(Progress(1))

\* One thread uses a proxy and the proxies derived from it in every way:
\* operations, attributes that are not callable, with blocks.
ProxyInit ==
    Constructed(1, {0}, {0}, {<< <<"CustomError">> >>}, {NotGiven})

ProxyNext ==
    \/ \E t \in Threads, p \in DOMAIN proxies, ov \in Overrides :
          WithOptions(t, p, ov)
    \/ \E t \in Threads, p \in DOMAIN proxies : GetAttr(t, p)
    \/ \E t \in Threads, p \in DOMAIN proxies, item \in ClientAttributes :
          GetAttrValue(t, p, item)
    \/ \E t \in Threads, p \in DOMAIN proxies : Enter(t, p)
    \/ \E t \in Threads : \E exc \in ExitExceptions(t) : Exit(t, exc)
    \/ \E i \in Threads, f \in DOMAIN funcs : Invoke(i, f)
    \/ \E i \in Threads : CallReturns(i)
    \/ \E i \in Threads : CallRaisesOther(i)
    \/ \E i \in Threads, code \in ErrorCodes : CallRaisesClientError(i, code)
    \/ \E i \in Threads : SleepReturns(i)

ProxySpec == ProxyInit /\ [][ProxyNext]_vars

(* ============================== properties ============================= *)
BuiltIn == Range(DEFAULT_RETRY_ERROR_CODES)

Started(t) == inv[t].fn # 0
FuncOf(t) == funcs[inv[t].fn]
\* The policy of a wrapped function, as its proxy was configured.
IgnoredCodes(f) == Range(proxies[f.proxy].ignore0)
AddedCodes(f) == Range(proxies[f.proxy].added0)
RetryableCodes(f) == BuiltIn \cup AddedCodes(f)

IsClientError(o) == o.kind = "ClientError"
\* No sleep was taken after call k of the invocation of thread t.
NoSleepFrom(t, k) ==
    \A s \in DOMAIN inv[t].sleeps : inv[t].sleeps[s].after < k
\* The invocation went on after call k (its failure was retried).
Retried(t, k) == k < Len(inv[t].hist) \/ Active(t)

\* C1: a failure whose code is in ignore_error_codes ends the invocation at
\* once with the result None, at every attempt index and also when the code
\* is retryable: it is the last underlying call and no sleep follows it (1
\* call and no sleep at all when it is the first call).
C1_IgnoreWins ==
    \A t \in Threads : Started(t) =>
        \A k \in DOMAIN inv[t].hist :
            (IsClientError(inv[t].hist[k])
             /\ inv[t].hist[k].code \in IgnoredCodes(FuncOf(t)))
            => /\ k = Len(inv[t].hist)
               /\ inv[t].pc = "ignored"
               /\ inv[t].result = NoneValue
               /\ NoSleepFrom(t, k)
               /\ (k = 1 => inv[t].sleeps = <<>>)

\* An invocation ignored a code that is also retryable, after a retry.
C1_Witness ==
    \E t \in Threads :
        /\ inv[t].pc = "ignored"
        /\ Len(inv[t].hist) >= 2
        /\ inv[t].hist[Len(inv[t].hist)].code \in RetryableCodes(FuncOf(t))

\* C2: one invocation makes at most max_retries + 1 underlying calls.
C2_AtMostMaxRetriesPlusOneCalls ==
    \A t \in Threads : Started(t) =>
        Len(inv[t].hist) <= FuncOf(t).max_retries + 1

\* C3: a ClientError whose code is neither ignored nor retryable is raised
\* at its first occurrence, as the same object, with no sleep and no further
\* underlying call, at attempt index 0 and after earlier retries alike.
C3_NonRetryablePropagates ==
    \A t \in Threads : Started(t) =>
        \A k \in DOMAIN inv[t].hist :
            (IsClientError(inv[t].hist[k])
             /\ inv[t].hist[k].code \notin IgnoredCodes(FuncOf(t))
             /\ inv[t].hist[k].code \notin RetryableCodes(FuncOf(t)))
            => /\ k = Len(inv[t].hist)
               /\ inv[t].pc = "failed"
               /\ inv[t].result = ClientError(inv[t].hist[k].code, k)
               /\ inv[t].result = inv[t].hist[k]
               /\ NoSleepFrom(t, k)

\* A non-retryable error was raised after an earlier retry.
C3_Witness ==
    \E t \in Threads :
        /\ inv[t].pc = "failed"
        /\ Len(inv[t].hist) >= 2
        /\ inv[t].result.code = "AccessDenied"
        /\ "AccessDenied" \notin RetryableCodes(FuncOf(t))

\* The first k calls of the invocation of t failed with retryable, not
\* ignored codes.
TransientPrefix(t, k) ==
    /\ k <= Len(inv[t].hist)
    /\ \A j \in 1 .. k :
          /\ IsClientError(inv[t].hist[j])
          /\ inv[t].hist[j].code \in RetryableCodes(FuncOf(t))
          /\ inv[t].hist[j].code \notin IgnoredCodes(FuncOf(t))

\* C4: for k <= max_retries, after k failures with retryable, not ignored
\* codes the invocation has not given up, and when call k+1 succeeds the
\* invocation returns the value of call k+1 and makes exactly k+1 calls.
C4_SuccessAfterTransientFailures ==
    \A t \in Threads : Started(t) =>
        \A k \in 0 .. FuncOf(t).max_retries :
            TransientPrefix(t, k) =>
               /\ (Len(inv[t].hist) = k => Active(t))
               /\ (Len(inv[t].hist) > k /\ inv[t].hist[k + 1].kind = "ok")
                  => /\ Len(inv[t].hist) = k + 1
                     /\ inv[t].pc = "success"
                     /\ inv[t].result = Response(k + 1)

\* An invocation succeeded at the call after max_retries >= 1 failures.
C4_Witness ==
    \E t \in Threads :
        /\ inv[t].pc = "success"
        /\ FuncOf(t).max_retries >= 1
        /\ Len(inv[t].hist) = FuncOf(t).max_retries + 1
        /\ inv[t].sleeps # <<>>

NumericFields ==
    {"interval_seconds", "max_retries", "backoff_rate", "jitter",
     "max_retries_before_backoff"}

Derived(p) == proxies[p].parent # 0

\* C5: a numeric field that with_options was given as 0 is 0 in the child.
C5_ExplicitZeroOverride ==
    \A p \in DOMAIN proxies : Derived(p) =>
        \A fld \in NumericFields :
            proxies[p].ov[fld] = <<0>> => proxies[p][fld] = 0

\* retry_on and the decision for proxy p's policy.
PolicyDecision(p, code, a) ==
    Decision(code, a, heap[proxies[p].added] \o DEFAULT_RETRY_ERROR_CODES,
             heap[proxies[p].ignore], proxies[p].max_retries)

\* C6: with_options() with no overrides gives a proxy over the same client
\* whose policy equals the parent's field by field, so that both decide
\* every failure alike (decision and whether a sleep precedes the retry).
C6_NoOverridesEqualsParent ==
    \A p \in DOMAIN proxies :
        (Derived(p) /\ proxies[p].ov = NoOverrides) =>
            LET c == proxies[p]
                q == proxies[proxies[p].parent]
            IN /\ c.client = q.client
               /\ \A fld \in NumericFields : c[fld] = q[fld]
               /\ heap[c.added] = heap[q.added]
               /\ heap[c.ignore] = heap[q.ignore]
               /\ \A code \in ErrorCodes, a \in 0 .. MaxCalls :
                     /\ PolicyDecision(p, code, a)
                          = PolicyDecision(proxies[p].parent, code, a)
                     /\ Backoff(a, c.max_retries_before_backoff)
                          = Backoff(a, q.max_retries_before_backoff)

\* A child made with no overrides, of a parent with added codes and a
\* non-default max_retries_before_backoff, was called and retried.
C6_Witness ==
    \E t \in Threads :
        /\ Started(t)
        /\ Derived(FuncOf(t).proxy)
        /\ proxies[FuncOf(t).proxy].ov = NoOverrides
        /\ proxies[FuncOf(t).proxy].max_retries_before_backoff = 1
        /\ proxies[proxies[FuncOf(t).proxy].parent].added0 # <<>>
        /\ Len(inv[t].hist) >= 2

\* C7: as long as no attribute was looked up on the original proxy itself,
\* deriving proxies and calling through them leaves the original's fields,
\* list contents included, as they were at construction.
C7_DerivingLeavesOriginalUnchanged ==
    (\A f \in DOMAIN funcs : funcs[f].proxy # 1) =>
        /\ heap[proxies[1].added] = proxies[1].added0
        /\ heap[proxies[1].ignore] = proxies[1].ignore0

\* C8: the retryable set is the 13 built-in codes united with the added
\* codes: a failure with a not ignored code at attempt index <= max_retries
\* is retried iff its code is built in or added.
C8_RetryableIsBuiltInPlusAdded ==
    /\ Cardinality(BuiltIn) = 13
    /\ \A f \in DOMAIN funcs : BuiltIn \subseteq Range(heap[funcs[f].retry_on])
    /\ \A t \in Threads : Started(t) =>
        \A k \in DOMAIN inv[t].hist :
            (IsClientError(inv[t].hist[k])
             /\ inv[t].hist[k].code \notin IgnoredCodes(FuncOf(t))
             /\ k - 1 <= FuncOf(t).max_retries)
            => (Retried(t, k) <=>
                  inv[t].hist[k].code \in BuiltIn \cup AddedCodes(FuncOf(t)))

\* With an added code: an added code and a built-in code were both retried.
C8_Witness ==
    \E t \in Threads :
        /\ Started(t)
        /\ "CustomError" \in AddedCodes(FuncOf(t))
        /\ Len(inv[t].hist) >= 3
        /\ inv[t].hist[1].code = "CustomError"
        /\ inv[t].hist[2].code = "ThrottlingException"

\* C9: an invocation that was entered ends in SUCCESS, IGNORED or FAILED,
\* and once ended it makes no further underlying call: its thread keeps the
\* outcome until it enters another invocation.
C9_InvocationTerminates ==
    /\ \A t \in {1} : (Active(t) ~> Terminal(t))
    /\ [][\A t \in Threads :
             Terminal(t) =>
                \/ inv'[t] = inv[t]
                \/ inv'[t].pc = "attempting" /\ inv'[t].hist = <<>>]_vars

\* An invocation ended by giving up after all its retries, sleeps included.
C9_Witness ==
    \E t \in Threads :
        /\ inv[t].pc = "failed"
        /\ Len(inv[t].hist) = FuncOf(t).max_retries + 2
        /\ inv[t].sleeps # <<>>

\* C10: every invocation counts its own attempts from 0: its counter is the
\* number of its own failures that were retried, and each of its sleeps was
\* computed from its own attempt index, whatever other invocations do.
C10_AttemptsPerInvocation ==
    \A t \in Threads : Started(t) =>
        /\ inv[t].attempts
             = Len(inv[t].hist) - (IF inv[t].pc = "attempting" THEN 0 ELSE 1)
        /\ Len(inv[t].hist) <= FuncOf(t).max_retries + 2
        /\ \A s \in DOMAIN inv[t].sleeps :
              /\ inv[t].sleeps[s].attempts = inv[t].sleeps[s].after - 1
              /\ inv[t].sleeps[s].attempts
                    > FuncOf(t).max_retries_before_backoff
        /\ \A k \in DOMAIN inv[t].hist :
              (IsClientError(inv[t].hist[k]) /\ Retried(t, k)
               /\ Backoff(k - 1, FuncOf(t).max_retries_before_backoff))
              => \E s \in DOMAIN inv[t].sleeps : inv[t].sleeps[s].after = k

\* Two invocations of the same decorated function are running at once, one
\* already retried and asleep, the other at its first call.
C10_Witness ==
    \E t, o \in Threads :
        /\ t # o
        /\ Started(t) /\ Started(o)
        /\ inv[t].fn = inv[o].fn
        /\ inv[t].pc = "sleeping" /\ inv[t].attempts >= 1
        /\ inv[o].pc = "attempting" /\ inv[o].hist = <<>>

\* C11: every list a proxy holds has the contents it had when the proxy was
\* constructed, whatever attributes were looked up and called since.
C11_ProxyNeverMutated ==
    \A p \in DOMAIN proxies :
        /\ heap[proxies[p].added] = proxies[p].added0
        /\ Len(heap[proxies[p].added]) = Len(proxies[p].added0)
        /\ heap[proxies[p].ignore] = proxies[p].ignore0

\* C12: the first retry that is preceded by a wait comes after exactly
\* max_retries_before_backoff retries: the failure at attempt index
\* max_retries_before_backoff, when retried, is followed by a wait (with 0,
\* the failure of the first call), and the first wait is taken there.
C12_RetriesBeforeBackoff ==
    \A t \in Threads : Started(t) =>
        LET bb == FuncOf(t).max_retries_before_backoff
        IN /\ (inv[t].sleeps # <<>> => inv[t].sleeps[1].attempts = bb)
           /\ (Len(inv[t].hist) > bb /\ Retried(t, bb + 1))
               => \E s \in DOMAIN inv[t].sleeps : inv[t].sleeps[s].after = bb + 1

\* The nominal first wait and the band the jitter allows around a nominal
\* value (times are in ms * 100, jitter in percent).
WithinJitter(time, nominal, jitter) ==
    /\ nominal * (100 - jitter) <= time
    /\ time <= nominal * (100 + jitter)

\* C13: the first wait of an invocation is interval_seconds, up to jitter.
C13_FirstWaitIsInterval ==
    \A t \in Threads : (Started(t) /\ inv[t].sleeps # <<>>) =>
        WithinJitter(inv[t].sleeps[1].time, FuncOf(t).interval_seconds,
                     FuncOf(t).jitter)

C17_DelayBounds ==
    \A t \in Threads : Started(t) =>
        LET f == FuncOf(t)
            z == inv[t].sleeps
        IN /\ \A s \in DOMAIN z :
                /\ z[s].attempts > f.max_retries_before_backoff
                /\ z[s].u \in 0 - f.jitter .. f.jitter
                /\ WithinJitter(z[s].time,
                      f.interval_seconds
                        * Pow(f.backoff_rate,
                              z[s].attempts - f.max_retries_before_backoff),
                      f.jitter)
           /\ \A s \in DOMAIN z :
                s > 1 => z[s].attempts = z[s - 1].attempts + 1

\* Two successive waits of one invocation, with different jitter draws.
C17_Witness ==
    \E t \in Threads :
        /\ Started(t)
        /\ Len(inv[t].sleeps) >= 2
        /\ inv[t].sleeps[1].u # inv[t].sleeps[2].u
        /\ inv[t].sleeps[2].attempts = 2

\* C18: a failure that is no ClientError leaves the invocation at once: it
\* is the last call, the invocation has failed with that very exception,
\* and no wait follows it, also when its name is among the retryable codes.
C18_OtherExceptionPropagates ==
    /\ ExceptionName \in BuiltIn
    /\ \A t \in Threads : Started(t) =>
        \A k \in DOMAIN inv[t].hist :
            inv[t].hist[k].kind = "Exception"
            => /\ k = Len(inv[t].hist)
               /\ inv[t].pc = "failed"
               /\ inv[t].result = inv[t].hist[k]
               /\ NoSleepFrom(t, k)

\* An exception whose name is retryable was raised after a retry and a wait.
C18_Witness ==
    \E t \in Threads :
        /\ Started(t)
        /\ inv[t].pc = "failed"
        /\ inv[t].result.kind = "Exception"
        /\ ExceptionName \in Range(heap[FuncOf(t).retry_on])
        /\ inv[t].sleeps # <<>>

Max(a, b) == IF a >= b THEN a ELSE b

C20_NoWastedWait ==
    \A t \in Threads : Started(t) =>
        /\ \A s \in DOMAIN inv[t].sleeps :
              inv[t].sleeps[s].after < Len(inv[t].hist) \/ Active(t)
        /\ (inv[t].pc = "sleeping"
              => inv[t].sleeps[Len(inv[t].sleeps)].after = Len(inv[t].hist))
        /\ (Terminal(t) => NoSleepFrom(t, Len(inv[t].hist)))

\* An invocation that waited gave up on the call after its last wait.
C20_Witness ==
    \E t \in Threads :
        /\ Started(t)
        /\ inv[t].pc = "failed"
        /\ inv[t].sleeps # <<>>
        /\ inv[t].sleeps[Len(inv[t].sleeps)].after = Len(inv[t].hist) - 1
        /\ IsClientError(inv[t].result)
        /\ inv[t].result.code \in RetryableCodes(FuncOf(t))

\* C14: looking up an attribute of the client that is not callable gives the
\* client's own value and changes nothing else: no list, proxy or wrapped
\* function, no invocation (no underlying call, no retry, no sleep), no
\* with block.
C14_AttributePassThrough ==
    [][\A t \in Threads :
          ctx'[t].got # ctx[t].got =>
             /\ ~Callable(ctx'[t].got.item)
             /\ \E p \in DOMAIN proxies :
                   ctx'[t].got.value
                      = ClientAttribute(proxies[p].client, ctx'[t].got.item)
             /\ UNCHANGED <<heap, proxies, funcs, inv>>
             /\ ctx'[t].scope = ctx[t].scope
             /\ ctx'[t].left = ctx[t].left]_vars

\* The attribute meta was read while a derived proxy and a wrapped function
\* over a non-empty added list exist.
C14_Witness ==
    \E t \in Threads :
        /\ ctx[t].got.item = "meta"
        /\ ctx[t].got.value = ClientAttribute("s3", "meta")
        /\ Len(proxies) = 2
        /\ funcs # <<>>
        /\ heap[proxies[1].added] # <<>>

\* C15: a with block on a proxy is a no-op: what __enter__ gives is the
\* proxy itself, entering and leaving change neither the lists, the
\* proxies, the wrapped functions nor the invocation, and an exception that
\* leaves the block reaches the caller.
C15_ScopeIsNoOp ==
    /\ [](\A t \in Threads :
             /\ ctx[t].scope # NoScope => ctx[t].scope.as = ctx[t].scope.on
             /\ ctx[t].left.reaches = ctx[t].left.exc)
    /\ [][\A t \in Threads :
             (ctx'[t].scope # ctx[t].scope \/ ctx'[t].left # ctx[t].left) =>
                /\ UNCHANGED <<heap, proxies, funcs, inv>>
                /\ ctx'[t].got = ctx[t].got]_vars

\* A with block on a derived proxy was left by a ClientError raised by a
\* call made inside it.
C15_Witness ==
    \E t \in Threads :
        /\ ctx[t].left.exits
        /\ ctx[t].left.exc.kind = "ClientError"
        /\ ctx[t].left.exc = inv[t].result
        /\ Started(t) /\ Derived(FuncOf(t).proxy)

====
